---- MODULE Spec2Model ----
(***************************************************************************)
(* Model of the moderation dispatch and batching engine of GeminiService   *)
(* (src/src/services/GeminiService.ts): the batching coordinator           *)
(* queueMessageForModeration, the classifier gateway moderateMessage /     *)
(* moderateMessageBatch, and the text-heuristic extractor; and of the      *)
(* message and new-member handlers of ModerationBot                        *)
(* (src/src/ModerationBot.ts) that call the engine and enforce its outcome.*)
(*                                                                         *)
(* Conventions                                                             *)
(*  - a number that is "absent" in JavaScript (undefined) and one that is 0 *)
(*    are both written 0: the code reads them through `x || y`, which      *)
(*    treats the two alike.                                                *)
(*  - confidence is in hundredths (95 stands for 0.95).                    *)
(*  - time is counted in ticks; a timer holds the delay left until it      *)
(*    fires, as setTimeout(callback, delay) does.                          *)
(*  - reply text is a sequence of tokens: the per-item markers and a small *)
(*    vocabulary of phrases the extractor's regular expressions react to.  *)
(***************************************************************************)
EXTENDS Integers, Sequences, FiniteSets, TLC

\* ---------------------------------------------------------------- bounds
MaxSubmit == 3          \* submissions per behaviour
NumChats == 1           \* conversation keys are 0..NumChats
MaxBatchSizeBound == 3  \* maxBatchSize is configured in 1..MaxBatchSizeBound
BatchTimeout == 2       \* batchTimeout, in ticks
MaxEntries == 3         \* entries in a structured batch reply
MaxTextLen == 4         \* tokens in a free-text reply
MaxMessages == 3        \* requests in a direct gateway call
MaxPhrases == 3         \* phrases in a text given to the extractor directly
MaxBotEvents == 2       \* updates the bot handles per behaviour

VARIABLES
    maxBatchSize,   \* GeminiService.maxBatchSize
    batchMap,       \* GeminiService.batchMap: conversation key -> batch object (0: no entry)
    batches,        \* the ModerationBatch objects ever created, by identity
    timers,         \* armed setTimeout handles -> delay left
    calls,          \* one record per queueMessageForModeration call (its promise and closure)
    flushes,        \* one record per moderateMessageBatch call issued by the coordinator
    gwIn,           \* input of a direct gateway call
    gwOut,          \* its result
    gwPc,           \* its position
    whitelist,      \* WhitelistService.whitelist: the user ids that bypass moderation
    customPrompts,  \* PromptManager.customPrompts: conversation -> the prompts it has
    spamUsers,      \* SpamCache.spamUsers: user id -> spamReason
    spamMessages,   \* SpamCache.spamMessages
    inbox           \* one record per update the bot has handled (its handler's locals)

botVars == <<whitelist, customPrompts, spamUsers, spamMessages, inbox>>

vars == <<maxBatchSize, batchMap, batches, timers, calls, flushes, gwIn, gwOut, gwPc,
          botVars>>

ChatKeys == 0..NumChats

\* no bot around the engine: the engine is driven directly
BotAbsent ==
    /\ whitelist = {}
    /\ customPrompts = <<>>
    /\ spamUsers = <<>>
    /\ spamMessages = {}
    /\ inbox = <<>>

\* ------------------------------------------------------------ data model
\* ModerateMessageResponse
Outcome(isSpam, confidence, reason, matchesKnownPattern, shouldBan, messageId) ==
    [isSpam |-> isSpam, confidence |-> confidence, reason |-> reason,
     matchesKnownPattern |-> matchesKnownPattern, shouldBan |-> shouldBan,
     messageId |-> messageId]

NoValue == Outcome(FALSE, -1, "no value", FALSE, FALSE, -1)

\* the `x || y` of JavaScript on numbers
OrElse(x, y) == IF x # 0 THEN x ELSE y

\* what the classifier may answer about one message
SpamVerdict ==
    [isSpam |-> TRUE, confidence |-> 95, reason |-> "advertising",
     matchesKnownPattern |-> TRUE, shouldBan |-> TRUE]
HamVerdict ==
    [isSpam |-> FALSE, confidence |-> 10, reason |-> "ok",
     matchesKnownPattern |-> FALSE, shouldBan |-> FALSE]
Verdicts == {SpamVerdict, HamVerdict}

\* one element of functionCall.args.results
Entry(i, v) ==
    [messageIndex |-> i, isSpam |-> v.isSpam, confidence |-> v.confidence,
     reason |-> v.reason, matchesKnownPattern |-> v.matchesKnownPattern,
     shouldBan |-> v.shouldBan]

SeqsUpTo(S, n) == UNION {[1..k -> S] : k \in 0..n}

\* --------------------------------------------------------- reply text
\* per-item markers the batch prompt contains: the labels and the separator
Labels == {"L1", "L2", "L3"}     \* "Сообщение 1:", "Сообщение 2:", "Сообщение 3:"
Dash == "DASH"                   \* "---"
\* phrases: NEG "не является спамом", POS "является спамом", GEN "подозрительно",
\* OKW "обычное сообщение", CONF80 "уверенность: 80%", HIGH "с высокой уверенностью",
\* BAN "забанить", PAT "pattern", REASON "причина: реклама.",
\* NOAD "это не реклама", CONF05 "уверенность: 0.5", MED "средняя уверенность",
\* LOW "низкая уверенность"
Words == {"NEG", "POS", "GEN", "OKW", "CONF80", "CONF150", "HIGH", "BAN", "PAT", "REASON",
          "NOAD", "CONF05", "MED", "LOW"}
\* JSON objects written into the text:
\* JSON_SPAM {"isSpam": true, "confidence": 0.9}
\* JSON_NAN  {"isSpam": false, "confidence": "high"}
\* JSON_PART {"isSpam": true}
JsonObjects == {"JSON_SPAM", "JSON_NAN", "JSON_PART"}
Tokens == Words \cup Labels \cup {Dash} \cup JsonObjects

Has(text, S) == \E i \in 1..Len(text) : text[i] \in S

\* keyword rules without the negative test
NegativeAssertionNone == {}

\* /не является спамом|не спам|не рекламa/i
NegativeAssertion == {"NEG"}
\* /является спамом|это спам|это реклама/i ("не является спамом" contains it)
PositiveAssertion == {"POS", "NEG"}
\* /спам|реклам|подозрительн|вредоносн/i ("это не реклама" has "реклам" and matches
\* neither assertion: the negative pattern ends in a Latin a)
SpamKeyword == {"POS", "NEG", "GEN", "REASON", "NOAD"}
\* the number captured by /уверенность:?\s*([\d.]+)%?/i, in hundredths
\* ("уверенность: 80%" is 80, "уверенность: 150%" is 150; -1 when the token has none)
NumericMention(tok) ==
    IF tok = "CONF80" THEN 8000 ELSE IF tok = "CONF150" THEN 15000
    ELSE IF tok = "CONF05" THEN 50 ELSE -1
\* sentence.includes("спам") || includes("реклам") || includes("подозрит")
SpamSentence == {"POS", "NEG", "GEN", "REASON", "NOAD"}

\* Number("high"): not a number
NaN == -1

\* JSON.parse(jsonMatch[0]) of the object a token stands for
JsonData(tok) ==
    IF tok = "JSON_SPAM"
    THEN [hasIsSpam |-> TRUE, hasConfidence |-> TRUE, isSpam |-> TRUE, confidence |-> 90]
    ELSE IF tok = "JSON_NAN"
    THEN [hasIsSpam |-> TRUE, hasConfidence |-> TRUE, isSpam |-> FALSE, confidence |-> NaN]
    ELSE [hasIsSpam |-> TRUE, hasConfidence |-> FALSE, isSpam |-> TRUE, confidence |-> 0]

\* text.match(/\{[\s\S]*?\}/): the first object of the text
HasJson(text) == Has(text, JsonObjects)
FirstJson(text) ==
    JsonData(text[CHOOSE i \in 1..Len(text) :
                      /\ text[i] \in JsonObjects
                      /\ \A j \in 1..(i - 1) : text[j] \notin JsonObjects])

\* jsonData.isSpam !== undefined && jsonData.confidence !== undefined
JsonTrusted(text) ==
    HasJson(text) /\ FirstJson(text).hasIsSpam /\ FirstJson(text).hasConfidence

\* the outcome built from the embedded object: the objects above carry no reason,
\* matchesKnownPattern or shouldBan, so these are the placeholder, Boolean(undefined)
EmbeddedJson(text) ==
    Outcome(FirstJson(text).isSpam, FirstJson(text).confidence, "from JSON", FALSE, FALSE, 0)

FirstNumeric(text) ==
    LET idx == {i \in 1..Len(text) : NumericMention(text[i]) >= 0}
    IN  IF idx = {} THEN -1
        ELSE NumericMention(text[CHOOSE i \in idx : \A j \in idx : i <= j])

\* a confidence that prefers the qualitative wording to the number
ExtractConfidenceWordsFirst(text, isSpam) ==
    IF Has(text, {"HIGH"}) THEN 90
    ELSE IF Has(text, {"MED"}) THEN 70
    ELSE IF Has(text, {"LOW"}) THEN 30
    ELSE IF FirstNumeric(text) >= 0
    THEN (IF FirstNumeric(text) > 100 THEN FirstNumeric(text) \div 100 ELSE FirstNumeric(text))
    ELSE IF isSpam THEN 75 ELSE 25

\* confidenceMatch ? parseFloat (over 1: / 100) : high 0.9, medium 0.7, low 0.3,
\* else isSpam ? 0.75 : 0.25
ExtractConfidence(text, isSpam) ==
    LET num == FirstNumeric(text)
    IN  IF num >= 0 THEN (IF num > 100 THEN num \div 100 ELSE num)
        ELSE IF Has(text, {"HIGH"}) THEN 90
        ELSE IF Has(text, {"MED"}) THEN 70
        ELSE IF Has(text, {"LOW"}) THEN 30
        ELSE IF isSpam THEN 75 ELSE 25

\* the keyword rules of extractModerationFromText
KeywordRules(text) ==
    LET isSpam == IF Has(text, NegativeAssertion) THEN FALSE
                  ELSE IF Has(text, PositiveAssertion) THEN TRUE
                  ELSE Has(text, SpamKeyword)
        confidence == ExtractConfidence(text, isSpam)
        reason == IF Has(text, {"REASON"}) THEN "stated reason"
                  ELSE IF isSpam /\ Has(text, SpamSentence) THEN "spam sentence"
                  ELSE "no reason extracted"
        shouldBan == Has(text, {"BAN"})
        matchesKnownPattern == Has(text, {"PAT"})
    IN  Outcome(isSpam, confidence, reason, matchesKnownPattern \/ isSpam, shouldBan, 0)

\* extractModerationFromText (the result carries no messageId)
extractModerationFromText(text) ==
    IF JsonTrusted(text) THEN EmbeddedJson(text) ELSE KeywordRules(text)

IsDelimiter(tok) == tok \in Labels \cup {Dash}

\* text.split(/---|\n\nСообщение \d+:|Сообщение \d+:/)
RECURSIVE SplitText(_)
SplitText(text) ==
    IF ~ \E i \in 1..Len(text) : IsDelimiter(text[i]) THEN <<text>>
    ELSE LET d == CHOOSE i \in 1..Len(text) :
                     /\ IsDelimiter(text[i])
                     /\ \A j \in 1..(i - 1) : ~ IsDelimiter(text[j])
         IN  <<SubSeq(text, 1, d - 1)>> \o SplitText(SubSeq(text, d + 1, Len(text)))

\* an extractor that reads nothing for a request without a segment
SegmentForMissing(pieces, text, index) ==
    IF index < Len(pieces) THEN pieces[index + 1] ELSE <<>>

\* the segment read for the request at 0-based position index
SegmentFor(pieces, text, index) ==
    IF index < Len(pieces) THEN pieces[index + 1] ELSE text

WithId(outcome, messageId) == [outcome EXCEPT !.messageId = messageId]

\* extractBatchResultsFromText
extractBatchResultsFromText(text, messages) ==
    IF Has(text, {"L1", Dash})
    THEN LET messageResponses == SplitText(text)
         IN  [i \in 1..Len(messages) |->
                 WithId(extractModerationFromText(SegmentFor(messageResponses, text, i - 1)),
                        OrElse(messages[i].messageId, i - 1))]
    ELSE [i \in 1..Len(messages) |->
             WithId(extractModerationFromText(text), OrElse(messages[i].messageId, i - 1))]

\* ------------------------------------------------------- classifier reply
\* kind: "error"    axios.post throws
\*       "badshape" candidates is an empty list: reading candidates[0].content throws
\*       "noparts"  neither functionCall nor text in parts[0]
\*       "fc"       parts[0].functionCall = {name, args}
\*       "fcbroken" parts[0].functionCall whose args.results is not a list of
\*                  entries: sorting or mapping it throws
\*       "text"     parts[0].text
Reply(kind, name, hasResults, results, args, text) ==
    [kind |-> kind, name |-> name, hasResults |-> hasResults, results |-> results,
     args |-> args, text |-> text]

ErrorReply == Reply("error", "", FALSE, <<>>, HamVerdict, <<>>)
BadShapeReply == Reply("badshape", "", FALSE, <<>>, HamVerdict, <<>>)
NoPartsReply == Reply("noparts", "", FALSE, <<>>, HamVerdict, <<>>)
BatchCall(results) == Reply("fc", "moderate_messages_batch", TRUE, results, HamVerdict, <<>>)
SingleCall(v) == Reply("fc", "moderate_message", FALSE, <<>>, v, <<>>)
BrokenCall == Reply("fcbroken", "moderate_messages_batch", TRUE, <<>>, HamVerdict, <<>>)
TextReply(text) == Reply("text", "", FALSE, <<>>, HamVerdict, text)

\* ------------------------------------------------------------- gateway
DefaultOutcome(reason, messageId) == Outcome(FALSE, 0, reason, FALSE, FALSE, messageId)

\* a failure path that hands back no outcome at all
BatchDefaultsNone(messages) == <<>>

\* messages.map((msg, index) => ({isSpam: false, confidence: 0, ...}))
BatchDefaults(messages) ==
    [i \in 1..Len(messages) |->
        DefaultOutcome("batch processing error", OrElse(messages[i].messageId, i - 1))]

\* Array.prototype.sort((a, b) => a.messageIndex - b.messageIndex), which is stable
RECURSIVE InsertByIndex(_, _)
InsertByIndex(sorted, e) ==
    IF sorted = <<>> THEN <<e>>
    ELSE IF sorted[Len(sorted)].messageIndex <= e.messageIndex THEN Append(sorted, e)
    ELSE Append(InsertByIndex(SubSeq(sorted, 1, Len(sorted) - 1), e), sorted[Len(sorted)])

\* a structured path that maps the entries in the order the classifier listed them
SortByIndexNone(entries) == entries

RECURSIVE SortByIndex(_)
SortByIndex(entries) ==
    IF entries = <<>> THEN <<>>
    ELSE InsertByIndex(SortByIndex(SubSeq(entries, 1, Len(entries) - 1)), entries[Len(entries)])

\* messages[result.messageIndex]?.messageId || index
CitedId(messages, messageIndex, index) ==
    IF messageIndex + 1 \in 1..Len(messages)
    THEN OrElse(messages[messageIndex + 1].messageId, index)
    ELSE index

\* the structured path of moderateMessageBatch: sort the entries, map them by position
StructuredBatch(messages, batchResults) ==
    LET sorted == SortByIndex(batchResults)
    IN  [i \in 1..Len(sorted) |->
            Outcome(sorted[i].isSpam, sorted[i].confidence, sorted[i].reason,
                    sorted[i].matchesKnownPattern, sorted[i].shouldBan,
                    CitedId(messages, sorted[i].messageIndex, i - 1))]

\* a single-item operation that never passes the ban flag on
moderateMessageNoBan(request, reply) ==
    IF reply.kind = "fc" /\ reply.name = "moderate_message"
    THEN Outcome(reply.args.isSpam, reply.args.confidence, reply.args.reason,
                 reply.args.matchesKnownPattern, FALSE, request.messageId)
    ELSE DefaultOutcome("processing error", request.messageId)

\* moderateMessage
moderateMessage(request, reply) ==
    IF reply.kind = "fc" /\ reply.name = "moderate_message"
    THEN Outcome(reply.args.isSpam, reply.args.confidence, reply.args.reason,
                 reply.args.matchesKnownPattern, reply.args.shouldBan, request.messageId)
    ELSE IF reply.kind = "text"
    THEN WithId(extractModerationFromText(reply.text), request.messageId)
    ELSE DefaultOutcome("processing error", request.messageId)

\* a gateway that sends every snapshot through the batch request
UsesSingleOperationNever(messages) == FALSE

\* if (messages.length === 1): the snapshot goes through moderateMessage
UsesSingleOperation(messages) == Len(messages) = 1

\* the function the request declares to the classifier: moderateMessage declares
\* moderate_message, the multi-item request declares moderate_messages_batch
DeclaredFunction(messages) ==
    IF UsesSingleOperation(messages) THEN "moderate_message" ELSE "moderate_messages_batch"

\* moderateMessageBatch
moderateMessageBatch(messages, reply) ==
    IF Len(messages) = 0 THEN <<>>
    ELSE IF UsesSingleOperation(messages) THEN <<moderateMessage(messages[1], reply)>>
    ELSE IF reply.kind = "fc" /\ reply.name = "moderate_messages_batch" /\ reply.hasResults
    THEN StructuredBatch(messages, reply.results)
    ELSE IF reply.kind = "text"
    THEN extractBatchResultsFromText(reply.text, messages)
    ELSE BatchDefaults(messages)

\* --------------------------------------------------------- coordinator
\* one batch shared by every conversation
ChatKeyShared(request) == 0

\* request.chatId || 0
ChatKey(request) == OrElse(request.chatId, 0)

\* ModerateMessageRequest: the fields the engine reads
Request(chatId, messageId) == [chatId |-> chatId, messageId |-> messageId]

\* a timer armed one tick too long
TimerDelayLate == BatchTimeout + 1

\* the delay given to setTimeout
TimerDelay == BatchTimeout

\* the call record of one queueMessageForModeration: its promise (state, value) and
\* the variables its closure captures (chatId, batch, messageIndex)
\* (arrivedAt records the age of the batch at the call, for the timing properties)
Call(chatId, batch, messageIndex, arrivedAt) ==
    [chatId |-> chatId, batch |-> batch, messageIndex |-> messageIndex,
     state |-> "pending", value |-> NoValue, arrivedAt |-> arrivedAt]

\* resolve / reject of a promise: only the first settlement counts
Settle(call, state, value) ==
    IF call.state = "pending" THEN [call EXCEPT !.state = state, !.value = value] ELSE call

\* a handleResult that always delivers the first result
handleResultFirst(cs, k, results) ==
    IF 0 < Len(results)
    THEN [cs EXCEPT ![k] = Settle(cs[k], "resolved", results[1])]
    ELSE [cs EXCEPT ![k] = Settle(cs[k], "rejected", NoValue)]

\* handleResult of the call k
handleResult(cs, k, results) ==
    IF cs[k].messageIndex < Len(results)
    THEN [cs EXCEPT ![k] = Settle(cs[k], "resolved", results[cs[k].messageIndex + 1])]
    ELSE [cs EXCEPT ![k] = Settle(cs[k], "rejected", NoValue)]

\* the call whose handleResult a finished flush invokes:
\* the timer callback closes over the handleResult of the call that armed it,
\* the size flush over the handleResult of the call that filled the batch
Flush(batch, trigger, messages, handler, age) ==
    [batch |-> batch, trigger |-> trigger, messages |-> messages, handler |-> handler,
     age |-> age, status |-> "inflight", reply |-> "", results |-> <<>>,
     tool |-> DeclaredFunction(messages)]

\* a timer armed anew by every arrival
IsAnyMessage(messages) == Len(messages) >= 1

\* a first-message test made as if the request were not appended yet
IsFirstMessageOffByOne(messages) == Len(messages) = 0

\* if (batch.messages.length === 1)
IsFirstMessage(messages) == Len(messages) = 1

\* else if (batch.messages.length >= this.maxBatchSize)
ReachedMaxSize(messages, max) == Len(messages) >= max

Without(f, k) == [x \in DOMAIN f \ {k} |-> f[x]]

\* a size flush that leaves the timer armed
CancelTimerForgotten(ts, handle) == ts

\* if (batch.timer) clearTimeout(batch.timer)
CancelTimer(ts, handle) == Without(ts, handle)

\* a flush that leaves the batch in the map
RemoveFromMapLater(map, chatId) == map

\* this.batchMap.delete(chatId)
RemoveFromMap(map, chatId) == [map EXCEPT ![chatId] = 0]

\* a batch that puts the newest item first
PushFront(before, stored) == <<stored>> \o before

\* batch.messages.push({...request, messageId: ...})
Push(before, stored) == Append(before, stored)

\* queueMessageForModeration(request), up to its return
Queue(request) ==
    /\ Len(calls) < MaxSubmit
    /\ LET chatId == ChatKey(request)
           k == Len(calls) + 1
           existing == batchMap[chatId]
           b == IF existing = 0 THEN k ELSE existing
           before == IF existing = 0 THEN <<>> ELSE batches[b].messages
           age == IF existing = 0 THEN 0 ELSE batches[b].age
           handle == IF existing = 0 THEN 0 ELSE batches[b].timer
           stored == [request EXCEPT !.messageId = OrElse(request.messageId, Len(before))]
           messages == Push(before, stored)
           messageIndex == Len(messages) - 1
           put(timer) == (b :> [chatId |-> chatId, messages |-> messages,
                                timer |-> timer, age |-> age])
                         @@ Without(batches, b)
       IN  /\ calls' = Append(calls, Call(chatId, b, messageIndex, age))
           /\ IF IsFirstMessage(messages)
              THEN /\ batches' = put(k)
                   /\ timers' = (k :> TimerDelay) @@ CancelTimer(timers, handle)
                   /\ batchMap' = [batchMap EXCEPT ![chatId] = b]
                   /\ UNCHANGED flushes
              ELSE IF ReachedMaxSize(messages, maxBatchSize)
              THEN /\ batches' = put(0)
                   /\ timers' = CancelTimer(timers, handle)
                   /\ batchMap' = RemoveFromMap(batchMap, chatId)
                   /\ flushes' = Append(flushes, Flush(b, "size", messages, k, age))
              ELSE /\ batches' = put(handle)
                   /\ batchMap' = [batchMap EXCEPT ![chatId] = b]
                   /\ UNCHANGED <<timers, flushes>>

\* a caller of the engine submits a request
Submit(request) ==
    /\ Queue(request)
    /\ UNCHANGED <<maxBatchSize, gwIn, gwOut, gwPc, botVars>>

\* the setTimeout callback armed by call t, up to its await
TimerFire(t) ==
    /\ t \in DOMAIN timers
    /\ timers[t] = 0
    /\ LET b == calls[t].batch
           chatId == calls[t].chatId
           messagesToProcess == batches[b].messages
       IN  /\ batchMap' = RemoveFromMap(batchMap, chatId)
           /\ flushes' = Append(flushes,
                                Flush(b, "timer", messagesToProcess, t, batches[b].age))
    /\ timers' = Without(timers, t)
    /\ UNCHANGED <<maxBatchSize, batches, calls, gwIn, gwOut, gwPc, botVars>>

\* one tick of time: no timer is overdue, every armed timer comes one tick closer
Tick ==
    /\ DOMAIN timers # {}
    /\ \A t \in DOMAIN timers : timers[t] > 0
    /\ timers' = [t \in DOMAIN timers |-> timers[t] - 1]
    /\ batches' = [b \in DOMAIN batches |->
                      IF batchMap[batches[b].chatId] = b
                      THEN [batches[b] EXCEPT !.age = @ + 1] ELSE batches[b]]
    /\ UNCHANGED <<maxBatchSize, batchMap, calls, flushes, gwIn, gwOut, gwPc, botVars>>

\* the replies the classifier gives in the coordinator's runs: a failure, or a call
\* of the function declared for the request (complete, or one entry short); free
\* text gives the coordinator one outcome per message like the complete call does
InOrder(n, s) == [i \in 1..n |-> Entry(i - 1, IF i = s THEN SpamVerdict ELSE HamVerdict)]
CoordReplies(n) ==
    {ErrorReply}
    \cup (IF n = 1 THEN {SingleCall(SpamVerdict)}
          ELSE {BatchCall(InOrder(n, 1)), BatchCall(<<Entry(n - 1, SpamVerdict)>>)})

\* a coordinator whose classifier calls return in the order they were issued
CanCompleteInOrder(f) ==
    /\ flushes[f].status = "inflight"
    /\ \A g \in 1..(f - 1) : flushes[g].status = "done"

\* await this.moderateMessageBatch(messagesToProcess): each call is awaited on its
\* own, whatever the other calls do
CanComplete(f) == flushes[f].status = "inflight"

\* the classifier call of flush f returns (or fails) and the code after the await runs:
\* moderateMessageBatch computes the results, then the flush's handleResult is invoked
\* (once per message in the timer callback, once in the size flush's then)
Complete(f, reply) ==
    /\ f \in 1..Len(flushes)
    /\ CanComplete(f)
    /\ LET results == moderateMessageBatch(flushes[f].messages, reply)
       IN  /\ flushes' = [flushes EXCEPT ![f].status = "done", ![f].reply = reply.kind,
                                         ![f].results = results]
           /\ calls' = handleResult(calls, flushes[f].handler, results)
    /\ UNCHANGED <<maxBatchSize, batchMap, batches, timers, gwIn, gwOut, gwPc, botVars>>

\* the requests submitted: the bot's, with chatId and messageId (7), and one with neither
Requests == {Request(c, IF c = 0 THEN 0 ELSE 7) : c \in ChatKeys}

\* ------------------------------------------------- direct gateway calls
\* message lists as the coordinator stores them: position i holds either the
\* caller's messageId (10 + i) or, when none was given, its index
StoredMessages(n, given) ==
    [i \in 1..n |-> Request(1, IF i \in given THEN 10 + i ELSE i - 1)]
MessageLists == {StoredMessages(n, given) : n \in 1..MaxMessages, given \in SUBSET (1..MaxMessages)}

\* replies whose confidence is not a probability: a function call with
\* confidence 1.5, a text saying "уверенность: 150%"
OverVerdict == [isSpam |-> TRUE, confidence |-> 150, reason |-> "advertising",
                matchesKnownPattern |-> TRUE, shouldBan |-> FALSE]
OutOfRangeReplies ==
    {SingleCall(OverVerdict),
     BatchCall(<<Entry(0, OverVerdict), Entry(1, HamVerdict)>>),
     TextReply(<<"CONF150">>),
     TextReply(<<"POS", Dash, "CONF150">>)}

\* the value of a field the classifier left out
Undefined == -2

\* function calls whose arguments lack the required confidence
IncompleteVerdict == [isSpam |-> TRUE, confidence |-> Undefined, reason |-> "advertising",
                      matchesKnownPattern |-> TRUE, shouldBan |-> FALSE]
IncompleteReplies ==
    {SingleCall(IncompleteVerdict),
     BatchCall(<<Entry(0, IncompleteVerdict), Entry(1, SpamVerdict)>>)}

Entries == {Entry(i, v) : i \in 0..MaxMessages, v \in Verdicts}
GwTokens == {"POS", "OKW", "L1", "L2", Dash}
GwReplies ==
    {ErrorReply, BadShapeReply, NoPartsReply, BrokenCall}
    \cup {SingleCall(v) : v \in Verdicts}
    \cup {Reply("fc", "moderate_messages_batch", FALSE, <<>>, HamVerdict, <<>>)}
    \cup {BatchCall(r) : r \in SeqsUpTo(Entries, MaxEntries)}
    \cup {TextReply(t) : t \in SeqsUpTo(GwTokens, MaxTextLen) \ {<<>>}}
    \cup OutOfRangeReplies
    \cup IncompleteReplies

\* moderateMessageBatch(messages) called with the classifier answering reply
GwClassify ==
    /\ gwPc = "call"
    /\ gwOut' = moderateMessageBatch(gwIn.messages, gwIn.reply)
    /\ gwPc' = "done"
    /\ UNCHANGED <<gwIn, maxBatchSize, batchMap, batches, timers, calls, flushes, botVars>>

InitGateway ==
    /\ maxBatchSize = 1
    /\ batchMap = [c \in ChatKeys |-> 0]
    /\ batches = <<>>
    /\ timers = <<>>
    /\ calls = <<>>
    /\ flushes = <<>>
    /\ gwIn \in {[messages |-> m, reply |-> r] : m \in MessageLists, r \in GwReplies}
    /\ gwOut = <<>>
    /\ gwPc = "call"
    /\ BotAbsent

NextGateway == GwClassify

SpecGateway == InitGateway /\ [][NextGateway]_vars

\* ------------------------------------------------- generation settings
\* temperature, in hundredths
NormalTemperature == 10
LowTemperature == 5

\* ModerateMessageRequest with the profile flag the request builder reads
ProfiledRequest(messageId, suspiciousProfile) ==
    [chatId |-> 1, messageId |-> messageId, suspiciousProfile |-> suspiciousProfile]
ProfiledRequests == {ProfiledRequest(m, s) : m \in {0, 7}, s \in BOOLEAN}
ProfiledLists == SeqsUpTo(ProfiledRequests, MaxMessages) \ {<<>>}

\* moderateMessage: temperature: request.suspiciousProfile ? 0.05 : 0.1
SingleTemperature(request) ==
    IF request.suspiciousProfile THEN LowTemperature ELSE NormalTemperature

\* moderateMessageBatch: temperature: 0.1
BatchTemperature(messages) == NormalTemperature

\* generationConfig.temperature of the request moderateMessageBatch(messages) posts
generationTemperature(messages) ==
    IF UsesSingleOperation(messages) THEN SingleTemperature(messages[1])
    ELSE BatchTemperature(messages)

\* requestData as built for the classifier
GwBuildRequest ==
    /\ gwPc = "build"
    /\ gwOut' = <<[temperature |-> generationTemperature(gwIn.messages),
                   tool |-> DeclaredFunction(gwIn.messages)]>>
    /\ gwPc' = "built"
    /\ UNCHANGED <<gwIn, maxBatchSize, batchMap, batches, timers, calls, flushes, botVars>>

InitGeneration ==
    /\ maxBatchSize = 1
    /\ batchMap = [c \in ChatKeys |-> 0]
    /\ batches = <<>>
    /\ timers = <<>>
    /\ calls = <<>>
    /\ flushes = <<>>
    /\ gwIn \in {[messages |-> m, reply |-> ErrorReply] : m \in ProfiledLists}
    /\ gwOut = <<>>
    /\ gwPc = "build"
    /\ BotAbsent

NextGeneration == GwBuildRequest

SpecGeneration == InitGeneration /\ [][NextGeneration]_vars

\* ------------------------------------------------- direct extractor calls
\* texts of up to MaxPhrases phrases, the empty text included
ExTokens == {"NEG", "POS", "GEN", "NOAD", "OKW", "CONF80", "CONF05", "HIGH", "MED", "LOW",
             "PAT", "JSON_SPAM", "JSON_NAN", "JSON_PART"}
ExTexts == SeqsUpTo(ExTokens, MaxPhrases)

\* extractModerationFromText(text)
ExExtract ==
    /\ gwPc = "text"
    /\ gwOut' = <<extractModerationFromText(gwIn.reply.text)>>
    /\ gwPc' = "extracted"
    /\ UNCHANGED <<gwIn, maxBatchSize, batchMap, batches, timers, calls, flushes, botVars>>

InitExtractor ==
    /\ maxBatchSize = 1
    /\ batchMap = [c \in ChatKeys |-> 0]
    /\ batches = <<>>
    /\ timers = <<>>
    /\ calls = <<>>
    /\ flushes = <<>>
    /\ gwIn \in {[messages |-> <<>>, reply |-> TextReply(t)] : t \in ExTexts}
    /\ gwOut = <<>>
    /\ gwPc = "text"
    /\ BotAbsent

NextExtractor == ExExtract

SpecExtractor == InitExtractor /\ [][NextExtractor]_vars

Init ==
    /\ maxBatchSize \in 1..MaxBatchSizeBound
    /\ batchMap = [c \in ChatKeys |-> 0]
    /\ batches = <<>>
    /\ timers = <<>>
    /\ calls = <<>>
    /\ flushes = <<>>
    /\ gwIn = [messages |-> <<>>, reply |-> ErrorReply]
    /\ gwOut = <<>>
    /\ gwPc = "idle"
    /\ BotAbsent

Next ==
    \/ \E r \in Requests : Submit(r)
    \/ \E t \in DOMAIN timers : TimerFire(t)
    \/ Tick
    \/ \E f \in 1..Len(flushes) : \E reply \in CoordReplies(Len(flushes[f].messages)) :
           Complete(f, reply)

Spec == Init /\ [][Next]_vars

\* ------------------------------------------------------------- the bot
\* ModerationBot (src/src/ModerationBot.ts) around the engine: the handlers of text
\* messages and of new members, the spam cache, the whitelist and the custom prompts.
\* A handler that awaits the classifier is two steps, the one up to the await and
\* the one after it; a handler that only awaits Telegram calls is one step.
\* inbox holds the locals of the handler runs that are awaiting the classifier and
\* of the run that returned last; the locals of an earlier run are gone.

\* moderationConfig.confidenceThreshold, in hundredths
ConfidenceThreshold == 70

\* maxBatchSize given to the GeminiService constructor
BotMaxBatchSize == 5

Users == {"ann", "bob"}
Whitelists == {{}, {"ann"}}

\* hasSuspiciousBioLinks(bio) of the user's profile: bob's bio has such links
hasSuspiciousBioLinks(user) == user = "bob"
\* the bot moderates one group
BotChats == {1}
Texts == {"promo", "PROMO  "}

\* what a Telegram call of the handler may do: all succeed, deleteMessage throws,
\* banChatMember throws
ApiOutcomes == {"ok", "deleteFails", "banFails"}

\* a whitelist that holds nobody
isWhitelistedNever(userId) == FALSE

\* WhitelistService.isWhitelisted
isWhitelisted(userId) == userId \in whitelist

\* SpamCache.isKnownSpammer
isKnownSpammer(userId) == userId \in DOMAIN spamUsers

\* SpamCache.getSpamUserInfo(userId)?.spamReason ("none": no entry)
SpamReason(userId) == IF isKnownSpammer(userId) THEN spamUsers[userId] ELSE "none"

\* SpamCache.addSpamUser
addSpamUser(cache, userId, spamReason) == (userId :> spamReason) @@ cache

\* SpamCache.normalizeMessage: lower case, runs of blanks made one, trimmed
normalizeMessage(text) == IF text = "PROMO  " THEN "promo" ELSE text

\* SpamCache.isSimilarToKnownSpam
isSimilarToKnownSpam(messageText) == normalizeMessage(messageText) \in spamMessages

\* SpamCache.addSpamMessage
addSpamMessage(cache, messageText) == cache \cup {normalizeMessage(messageText)}

\* a conversation routing that never takes the custom prompt
UsesCustomPromptNever(chatId) == FALSE

\* promptManager.hasCustomPrompt(chatId) && promptManager.getSingleMessagePrompt(chatId)
UsesCustomPrompt(chatId) ==
    /\ chatId \in DOMAIN customPrompts
    /\ customPrompts[chatId].singleMessagePrompt

\* the threshold of moderateWithGemini and of checkNewMemberProfile
confidenceThreshold(isSuspiciousProfile) ==
    IF isSuspiciousProfile THEN (ConfidenceThreshold * 8) \div 10 ELSE ConfidenceThreshold

\* a spam test that looks at the verdict only
IsActionableSpamAnyConfidence(outcome, isSuspiciousProfile) == outcome.isSpam

\* moderationResult.isSpam && moderationResult.confidence >= confidenceThreshold
IsActionableSpam(outcome, isSuspiciousProfile) ==
    /\ outcome.isSpam
    /\ outcome.confidence >= confidenceThreshold(isSuspiciousProfile)

\* a handler that bans whether or not the message could be deleted
deleteMessageAndMaybeBanAnyway(shouldBan, api) ==
    [deleted |-> api # "deleteFails", banned |-> shouldBan /\ api # "banFails"]

\* deleteMessageAndMaybeBan: what became of the message and of its author
\* (the ban counter of the cache entry is not kept)
deleteMessageAndMaybeBan(shouldBan, api) ==
    IF api = "deleteFails" THEN [deleted |-> FALSE, banned |-> FALSE]
    ELSE [deleted |-> TRUE, banned |-> shouldBan /\ api # "banFails"]

\* moderateWithCustomPrompt: the outcome it makes of the classifier's reply
moderateWithCustomPrompt(request, reply) ==
    IF reply.kind = "fc" /\ reply.name = "moderate_message"
    THEN Outcome(reply.args.isSpam, reply.args.confidence, reply.args.reason,
                 reply.args.matchesKnownPattern, reply.args.shouldBan, request.messageId)
    ELSE IF reply.kind = "text"
    THEN WithId(extractModerationFromText(reply.text), request.messageId)
    ELSE DefaultOutcome("processing error", request.messageId)

\* the locals of one handler run: the update, the path it took, and what it did
Update(kind, user, chatId, text) ==
    [kind |-> kind, user |-> user, chatId |-> chatId, text |-> text,
     known |-> SpamReason(user), path |-> "none", stage |-> "done",
     isSuspiciousProfile |-> FALSE, call |-> 0, outcome |-> NoValue,
     deleted |-> FALSE, banned |-> FALSE, cached |-> FALSE]

\* the locals of a run that returned earlier
Returned ==
    [kind |-> "none", user |-> "", chatId |-> 0, text |-> "",
     known |-> "none", path |-> "none", stage |-> "returned",
     isSuspiciousProfile |-> FALSE, call |-> 0, outcome |-> NoValue,
     deleted |-> FALSE, banned |-> FALSE, cached |-> FALSE]

Running(box) ==
    [i \in 1..Len(box) |-> IF box[i].stage = "awaiting" THEN box[i] ELSE Returned]

Enforced(u, path, done) ==
    [u EXCEPT !.path = path, !.deleted = done.deleted, !.banned = done.banned]

\* bot.on(message("text")) in a group, up to its return or to the await of the
\* classifier in moderateWithGemini
OnText(user, chatId, text, api) ==
    /\ Len(inbox) < MaxBotEvents
    /\ LET u == Update("text", user, chatId, text)
           isSuspiciousProfile == hasSuspiciousBioLinks(user)
           m == Len(inbox) + 1
       IN  IF isWhitelisted(user)
           THEN /\ inbox' = Append(Running(inbox), [u EXCEPT !.path = "whitelist"])
                /\ UNCHANGED <<spamUsers, spamMessages, batchMap, batches, timers,
                               calls, flushes>>
           ELSE IF isKnownSpammer(user)
           THEN /\ inbox' = Append(Running(inbox), Enforced(u, "knownSpammer",
                                                   deleteMessageAndMaybeBan(TRUE, api)))
                /\ UNCHANGED <<spamUsers, spamMessages, batchMap, batches, timers,
                               calls, flushes>>
           ELSE IF isSimilarToKnownSpam(text)
           THEN /\ inbox' = Append(Running(inbox),
                                   [Enforced(u, "similar",
                                             deleteMessageAndMaybeBan(FALSE, api))
                                        EXCEPT !.cached = TRUE])
                /\ spamUsers' = addSpamUser(spamUsers, user, "known spam text")
                /\ UNCHANGED <<spamMessages, batchMap, batches, timers, calls, flushes>>
           ELSE IF UsesCustomPrompt(chatId)
           THEN /\ inbox' = Append(Running(inbox),
                                   [u EXCEPT !.path = "custom", !.stage = "awaiting",
                                             !.isSuspiciousProfile = isSuspiciousProfile])
                /\ UNCHANGED <<spamUsers, spamMessages, batchMap, batches, timers,
                               calls, flushes>>
           ELSE /\ Queue(Request(chatId, m))
                /\ inbox' = Append(Running(inbox),
                                   [u EXCEPT !.path = "queue", !.stage = "awaiting",
                                             !.isSuspiciousProfile = isSuspiciousProfile,
                                             !.call = Len(calls) + 1])
                /\ UNCHANGED <<spamUsers, spamMessages>>
    /\ UNCHANGED <<whitelist, customPrompts, maxBatchSize, gwIn, gwOut, gwPc>>

\* moderateWithGemini after the await, given the outcome
AfterOutcome(m, outcome, api) ==
    LET u == [inbox[m] EXCEPT !.stage = "done", !.outcome = outcome]
    IN  IF IsActionableSpam(outcome, u.isSuspiciousProfile)
        THEN /\ inbox' = [Running(inbox) EXCEPT ![m] =
                             [Enforced(u, u.path,
                                       deleteMessageAndMaybeBan(outcome.shouldBan, api))
                                  EXCEPT !.cached = TRUE]]
             /\ spamUsers' = addSpamUser(spamUsers, u.user, "spam")
             /\ spamMessages' = addSpamMessage(spamMessages, u.text)
        ELSE /\ inbox' = [Running(inbox) EXCEPT ![m] = u]
             /\ UNCHANGED <<spamUsers, spamMessages>>

\* the classifier answers the custom-prompt request of message m and
\* moderateWithGemini goes on
CustomResult(m, reply, api) ==
    /\ m \in 1..Len(inbox)
    /\ inbox[m].stage = "awaiting"
    /\ inbox[m].path = "custom"
    /\ AfterOutcome(m, moderateWithCustomPrompt(Request(inbox[m].chatId, m), reply), api)
    /\ UNCHANGED <<whitelist, customPrompts, maxBatchSize, batchMap, batches, timers,
                   calls, flushes, gwIn, gwOut, gwPc>>

\* the promise of queueMessageForModeration is settled and moderateWithGemini goes
\* on: after the await when it resolved, in the catch when it rejected
QueueResult(m, api) ==
    /\ m \in 1..Len(inbox)
    /\ inbox[m].stage = "awaiting"
    /\ inbox[m].path = "queue"
    /\ LET call == calls[inbox[m].call]
       IN  /\ call.state # "pending"
           /\ IF call.state = "resolved"
              THEN AfterOutcome(m, call.value, api)
              ELSE /\ inbox' = [Running(inbox) EXCEPT ![m].stage = "done"]
                   /\ UNCHANGED <<spamUsers, spamMessages>>
    /\ UNCHANGED <<whitelist, customPrompts, maxBatchSize, batchMap, batches, timers,
                   calls, flushes, gwIn, gwOut, gwPc>>

\* functionCallData.args of evaluate_profile
ProfileResult(isSuspicious, suspicionLevel, profileType, shouldBan) ==
    [isSuspicious |-> isSuspicious, suspicionLevel |-> suspicionLevel,
     profileType |-> profileType, shouldBan |-> shouldBan]

ProfileResults ==
    {ProfileResult(FALSE, 10, "normal", FALSE),
     ProfileResult(TRUE, 75, "slutbot", FALSE),
     ProfileResult(TRUE, 90, "crypto_spammer", FALSE),
     ProfileResult(TRUE, 90, "crypto_spammer", TRUE),
     ProfileResult(TRUE, 90, "other", TRUE)}

\* bot.on("new_chat_members") for one new member: a cached user is banned, another
\* goes through checkNewMemberProfile, which bans, puts under observation or passes
OnNewMember(user, chatId, result, api) ==
    /\ Len(inbox) < MaxBotEvents
    /\ LET u == Update("join", user, chatId, "")
           isSuspiciousProfile == hasSuspiciousBioLinks(user)
       IN  IF isKnownSpammer(user)
           THEN /\ inbox' = Append(Running(inbox), [u EXCEPT !.path = "knownSpammer",
                                                    !.banned = (api # "banFails")])
                /\ UNCHANGED spamUsers
           ELSE IF /\ result.isSuspicious
                   /\ result.suspicionLevel >= confidenceThreshold(isSuspiciousProfile)
                   /\ result.profileType \in {"slutbot", "crypto_spammer"}
           THEN IF result.shouldBan \/ (isSuspiciousProfile /\ result.suspicionLevel > 80)
                THEN IF api = "banFails"
                     THEN /\ inbox' = Append(Running(inbox), [u EXCEPT !.path = "profile"])
                          /\ UNCHANGED spamUsers
                     ELSE /\ inbox' = Append(Running(inbox), [u EXCEPT !.path = "profile",
                                                              !.banned = TRUE,
                                                              !.cached = TRUE])
                          /\ spamUsers' = addSpamUser(spamUsers, user, "suspicious profile")
                ELSE /\ inbox' = Append(Running(inbox), [u EXCEPT !.path = "observation",
                                                         !.cached = TRUE])
                     /\ spamUsers' = addSpamUser(spamUsers, user, "under observation")
           ELSE /\ inbox' = Append(Running(inbox), [u EXCEPT !.path = "profile"])
                /\ UNCHANGED spamUsers
    /\ UNCHANGED <<whitelist, customPrompts, spamMessages, maxBatchSize, batchMap,
                   batches, timers, calls, flushes, gwIn, gwOut, gwPc>>

\* the ChatPrompt records a conversation may have: with a single-message prompt, or
\* with a batch prompt only
ChatPrompts == {[singleMessagePrompt |-> TRUE], [singleMessagePrompt |-> FALSE]}
PromptMaps ==
    UNION {[S -> ChatPrompts] : S \in SUBSET BotChats}

\* what the classifier answers the bot about one message
BotVerdict(isSpam, confidence, shouldBan) ==
    [isSpam |-> isSpam, confidence |-> confidence, reason |-> "advertising",
     matchesKnownPattern |-> isSpam, shouldBan |-> shouldBan]
BotVerdicts ==
    {BotVerdict(TRUE, 55, TRUE), BotVerdict(TRUE, 56, FALSE), BotVerdict(TRUE, 70, TRUE),
     BotVerdict(FALSE, 95, TRUE)}
CustomReplies == {ErrorReply} \cup {SingleCall(v) : v \in BotVerdicts}

InitBot ==
    /\ maxBatchSize = BotMaxBatchSize
    /\ batchMap = [c \in ChatKeys |-> 0]
    /\ batches = <<>>
    /\ timers = <<>>
    /\ calls = <<>>
    /\ flushes = <<>>
    /\ gwIn = [messages |-> <<>>, reply |-> ErrorReply]
    /\ gwOut = <<>>
    /\ gwPc = "idle"
    /\ whitelist \in Whitelists
    /\ customPrompts \in PromptMaps
    /\ spamUsers = <<>>
    /\ spamMessages = {}
    /\ inbox = <<>>

NextBot ==
    \/ \E user \in Users, chatId \in BotChats, text \in Texts, api \in ApiOutcomes :
           OnText(user, chatId, text, api)
    \/ \E user \in Users, chatId \in BotChats, result \in ProfileResults,
          api \in ApiOutcomes :
           OnNewMember(user, chatId, result, api)
    \/ \E m \in 1..Len(inbox), reply \in CustomReplies, api \in ApiOutcomes :
           CustomResult(m, reply, api)
    \/ \E m \in 1..Len(inbox), api \in ApiOutcomes : QueueResult(m, api)
    \/ \E t \in DOMAIN timers : TimerFire(t)
    \/ Tick
    \/ \E f \in 1..Len(flushes) : \E reply \in CoordReplies(Len(flushes[f].messages)) :
           Complete(f, reply)

SpecBot == InitBot /\ [][NextBot]_vars

\* ------------------------------------------------------------ properties
CallsOf(b) == {k \in 1..Len(calls) : calls[k].batch = b}
FlushesOf(b) == {f \in 1..Len(flushes) : flushes[f].batch = b}
IsDefault(o) == o.isSpam = FALSE /\ o.confidence = 0
OpenBatches == {batchMap[c] : c \in ChatKeys} \ {0}

\* C1: once the classifier call of a flushed batch has returned or failed, every
\* caller whose request is in that batch has its future resolved with an outcome.
C1_AllCallersSettled ==
    \A f \in 1..Len(flushes) :
        flushes[f].status = "done" =>
            \A k \in CallsOf(flushes[f].batch) : calls[k].state = "resolved"

\* C2: a resolved caller holds results[messageIndex] of the result sequence of the
\* one flush of its own batch, messageIndex being the position it was appended at.
C2_ResultCorrelation ==
    \A k \in 1..Len(calls) :
        calls[k].state = "resolved" =>
            /\ FlushesOf(calls[k].batch) # {}
            /\ \A f \in FlushesOf(calls[k].batch) :
                   /\ flushes[f].status = "done"
                   /\ calls[k].messageIndex < Len(flushes[f].results)
                   /\ calls[k].value = flushes[f].results[calls[k].messageIndex + 1]

\* a caller appended at a later position is resolved while another batch has a result too
C2_Witness ==
    \E k \in 1..Len(calls) :
        /\ calls[k].state = "resolved"
        /\ calls[k].messageIndex >= 1
        /\ \E f \in 1..Len(flushes) :
               flushes[f].batch # calls[k].batch /\ flushes[f].status = "done"

\* C3: when the classifier call of a batch of n < maxBatchSize items fails with a
\* transport error, all n callers are resolved with the conservative default and
\* none is rejected.
C3_ErrorResolvesAllWithDefault ==
    \A f \in 1..Len(flushes) :
        (/\ flushes[f].status = "done"
         /\ flushes[f].reply = "error"
         /\ Len(flushes[f].messages) < maxBatchSize) =>
            \A k \in CallsOf(flushes[f].batch) :
                calls[k].state = "resolved" /\ IsDefault(calls[k].value)

\* C4: moderateMessageBatch returns exactly one outcome per request, whatever the reply.
C4_Completeness ==
    gwPc = "done" => Len(gwOut) = Len(gwIn.messages)

IsStructured(in) ==
    /\ Len(in.messages) >= 2
    /\ in.reply.kind = "fc"
    /\ in.reply.name = "moderate_messages_batch"
    /\ in.reply.hasResults

\* the entries of the reply that declare the 0-based index i
EntriesFor(in, i) ==
    {j \in 1..Len(in.reply.results) : in.reply.results[j].messageIndex = i}

SameDecision(o, e) ==
    /\ o.isSpam = e.isSpam
    /\ o.confidence = e.confidence
    /\ o.reason = e.reason
    /\ o.matchesKnownPattern = e.matchesKnownPattern
    /\ o.shouldBan = e.shouldBan

LabelOf(i) == <<"L1", "L2", "L3">>[i]

\* a free-text reply that has exactly one labelled section for each of n requests
IsLabelled(in) ==
    /\ Len(in.messages) \in 2..3
    /\ in.reply.kind = "text"
    /\ \A i \in 1..Len(in.messages) :
           Cardinality({p \in 1..Len(in.reply.text) : in.reply.text[p] = LabelOf(i)}) = 1

\* the tokens of the section that follows the label of request i
SectionOf(text, i) ==
    LET p == CHOOSE q \in 1..Len(text) : text[q] = LabelOf(i)
        rest == SubSeq(text, p + 1, Len(text))
    IN  SplitText(rest)[1]

\* C5: on every reply path outcomes[i] is the decision for requests[i] and carries
\* the identity of requests[i]; on the structured path the decision for requests[i]
\* is an entry that declares index i, on the text path with labelled sections it is
\* the one extracted from the section labelled for item i.
C5_OrderPreservation ==
    gwPc = "done" =>
        \A i \in 1..Len(gwOut) :
            /\ i <= Len(gwIn.messages)
            /\ gwOut[i].messageId = gwIn.messages[i].messageId
            /\ IsStructured(gwIn) =>
                   \E j \in EntriesFor(gwIn, i - 1) :
                       SameDecision(gwOut[i], gwIn.reply.results[j])
            /\ IsLabelled(gwIn) =>
                   SameDecision(gwOut[i],
                                extractModerationFromText(SectionOf(gwIn.reply.text, i)))

\* C6: the future returned by queueMessageForModeration is never rejected.
C6_NeverRejected ==
    \A k \in 1..Len(calls) : calls[k].state # "rejected"

\* C7: with a structured reply that answers only some indices or repeats one, every
\* request whose index was answered gets an outcome the classifier gave for that
\* index and every unanswered request gets the conservative default.
C7_PartialResultRecovery ==
    (gwPc = "done" /\ IsStructured(gwIn)) =>
        /\ Len(gwOut) = Len(gwIn.messages)
        /\ \A i \in 1..Len(gwIn.messages) :
               IF EntriesFor(gwIn, i - 1) # {}
               THEN \E j \in EntriesFor(gwIn, i - 1) :
                        SameDecision(gwOut[i], gwIn.reply.results[j])
               ELSE IsDefault(gwOut[i])

\* C8: the maxBatchSize-th submission to a conversation flushes the batch within that
\* submission, for every maxBatchSize >= 1: no batch is left open holding maxBatchSize
\* items, a size flush carries exactly maxBatchSize items, its timer is cancelled and
\* the batch is flushed once.
C8_SizePreemption ==
    /\ \A b \in OpenBatches : Len(batches[b].messages) < maxBatchSize
    /\ \A f \in 1..Len(flushes) :
           flushes[f].trigger = "size" =>
               /\ Len(flushes[f].messages) = maxBatchSize
               /\ flushes[f].batch \notin DOMAIN timers
               /\ FlushesOf(flushes[f].batch) = {f}

\* C9: a batch holding a single request is flushed by its timer when batchTimeout has
\* elapsed since the submission and not later: while it is open its timer is armed
\* with what is left of batchTimeout, and its timer flush happens at age batchTimeout,
\* the batch being removed from the open-batch map.
C9_TimeoutBound ==
    /\ \A b \in OpenBatches :
           Len(batches[b].messages) = 1 =>
               /\ b \in DOMAIN timers
               /\ batches[b].age <= BatchTimeout
               /\ timers[b] = BatchTimeout - batches[b].age
    /\ \A f \in 1..Len(flushes) :
           (flushes[f].trigger = "timer" /\ Len(flushes[f].messages) = 1) =>
               /\ flushes[f].age = BatchTimeout
               /\ flushes[f].batch \notin OpenBatches

\* a lone request has been flushed by its timer
C9_Witness ==
    \E f \in 1..Len(flushes) :
        /\ flushes[f].trigger = "timer"
        /\ Len(flushes[f].messages) = 1
        /\ CallsOf(flushes[f].batch) = {flushes[f].batch}

\* C10: the timer of a batch is the one armed by its first item and runs from that
\* item's arrival whatever arrives later; a timer flush takes every item that arrived
\* before it, so no item waits longer than batchTimeout.
C10_TimerFromFirstArrival ==
    /\ \A b \in OpenBatches :
           /\ batches[b].timer = b
           /\ b \in DOMAIN timers
           /\ timers[b] + batches[b].age = BatchTimeout
    /\ \A t \in DOMAIN timers : calls[t].messageIndex = 0 /\ calls[t].batch \in OpenBatches
    /\ \A f \in 1..Len(flushes) :
           flushes[f].trigger = "timer" =>
               /\ flushes[f].age = BatchTimeout
               /\ Len(flushes[f].messages) = Cardinality(CallsOf(flushes[f].batch))
               /\ \A k \in CallsOf(flushes[f].batch) :
                      /\ calls[k].arrivedAt >= 0
                      /\ flushes[f].age - calls[k].arrivedAt <= BatchTimeout

\* a timer flush that carries an item which arrived after time had passed
C10_Witness ==
    \E f \in 1..Len(flushes) :
        /\ flushes[f].trigger = "timer"
        /\ \E k \in CallsOf(flushes[f].batch) :
               calls[k].messageIndex >= 1 /\ calls[k].arrivedAt >= 1

\* C11: a batch is flushed at most once, never both by size and by timer, and a
\* request whose batch has left the map is in the snapshot of exactly one flush,
\* at the position it was appended at.
C11_ExactlyOneFlush ==
    /\ \A b \in DOMAIN batches : Cardinality(FlushesOf(b)) <= 1
    /\ \A k \in 1..Len(calls) :
           calls[k].batch \notin OpenBatches =>
               /\ Cardinality(FlushesOf(calls[k].batch)) = 1
               /\ \A f \in FlushesOf(calls[k].batch) :
                      /\ calls[k].messageIndex < Len(flushes[f].messages)
                      /\ flushes[f].messages[calls[k].messageIndex + 1]
                             = batches[calls[k].batch].messages[calls[k].messageIndex + 1]

\* one batch of several requests went out by size and another one by timer
C11_Witness ==
    /\ \E f \in 1..Len(flushes) :
           flushes[f].trigger = "size" /\ Len(flushes[f].messages) >= 2
    /\ \E f \in 1..Len(flushes) : flushes[f].trigger = "timer"

\* C12: a flushed batch is out of the map from the moment its classifier call is
\* issued, so its snapshot holds every request the batch ever received and the map
\* holds at most one open batch per conversation, each with a timer of its own.
C12_RemoveBeforeCall ==
    /\ \A f \in 1..Len(flushes) :
           /\ flushes[f].batch \notin OpenBatches
           /\ batches[flushes[f].batch].messages = flushes[f].messages
           /\ Cardinality(CallsOf(flushes[f].batch)) = Len(flushes[f].messages)
    /\ \A c, d \in ChatKeys :
           (batchMap[c] # 0 /\ batchMap[c] = batchMap[d]) => c = d
    /\ \A b \in OpenBatches :
           /\ batchMap[batches[b].chatId] = b
           /\ \A f \in 1..Len(flushes) : batches[flushes[f].batch].timer # batches[b].timer

\* a request arrived while the call of its conversation was in flight: it sits in a
\* newer batch whose own timer is armed
C12_Witness ==
    \E f \in 1..Len(flushes), k \in 1..Len(calls) :
        /\ flushes[f].status = "inflight"
        /\ calls[k].chatId = batches[flushes[f].batch].chatId
        /\ calls[k].batch > flushes[f].batch
        /\ calls[k].batch \in OpenBatches
        /\ batches[calls[k].batch].timer \in DOMAIN timers

\* C13: the requests of a snapshot all carry the same chatId, and a classifier call
\* in flight never disables anything: while fewer than MaxSubmit requests were made
\* any request can be submitted, and every timer that ran out can fire.
C13_BatchIsolation ==
    /\ \A f \in 1..Len(flushes) :
           \A i, j \in 1..Len(flushes[f].messages) :
               flushes[f].messages[i].chatId = flushes[f].messages[j].chatId
    /\ (\E f \in 1..Len(flushes) : flushes[f].status = "inflight") =>
           /\ Len(calls) < MaxSubmit => \A r \in Requests : ENABLED Submit(r)
           /\ \A t \in DOMAIN timers : timers[t] = 0 => ENABLED TimerFire(t)

\* while the size-triggered call of one conversation is still in flight, a request
\* submitted afterwards for another conversation was timed, flushed and answered
C13_Witness ==
    \E f, g \in 1..Len(flushes) :
        /\ flushes[f].status = "inflight"
        /\ flushes[f].trigger = "size"
        /\ Len(flushes[f].messages) >= 2
        /\ flushes[g].trigger = "timer"
        /\ flushes[g].status = "done"
        /\ flushes[g].batch > flushes[f].handler
        /\ batches[flushes[g].batch].chatId # batches[flushes[f].batch].chatId
        /\ calls[flushes[g].batch].state = "resolved"

\* the replies the gateway cannot process: the call failed, the reply has no
\* candidate or no part, or its function call is not a usable call of the function
\* the request declared
CannotBeProcessed(in) ==
    \/ in.reply.kind \in {"error", "badshape", "noparts", "fcbroken"}
    \/ /\ in.reply.kind = "fc"
       /\ \/ in.reply.name # DeclaredFunction(in.messages)
          \/ in.reply.name = "moderate_messages_batch" /\ ~in.reply.hasResults

\* C14: when the classifier call fails or its reply cannot be processed, every
\* item of the batch gets an outcome with isSpam = FALSE and confidence = 0.
C14_ConservativeDefaultLaw ==
    (gwPc = "done" /\ CannotBeProcessed(gwIn)) =>
        /\ Len(gwOut) = Len(gwIn.messages)
        /\ \A i \in 1..Len(gwOut) : IsDefault(gwOut[i])

\* a batch of three whose structured reply could not be sorted got three defaults
C14_Witness ==
    /\ gwPc = "done"
    /\ gwIn.reply.kind = "fcbroken"
    /\ Len(gwIn.messages) = 3
    /\ Len(gwOut) = 3
    /\ \A i \in 1..3 : IsDefault(gwOut[i])

\* C15: a snapshot of exactly one item is sent as the single-item request
\* (moderate_message), a snapshot of two or more as the batch request
\* (moderate_messages_batch), and the call made in the declared function is read.
C15_SingleItemDispatch ==
    \A f \in 1..Len(flushes) :
        /\ Len(flushes[f].messages) = 1 => flushes[f].tool = "moderate_message"
        /\ Len(flushes[f].messages) >= 2 => flushes[f].tool = "moderate_messages_batch"
        /\ (flushes[f].status = "done" /\ flushes[f].reply = "fc") =>
               /\ Len(flushes[f].results) >= 1
               /\ flushes[f].results[1].isSpam
               /\ Len(flushes[f].messages) = 1 => Len(flushes[f].results) = 1

\* a one-item snapshot and a larger one were both classified from a function call
C15_Witness ==
    \E f, g \in 1..Len(flushes) :
        /\ Len(flushes[f].messages) = 1
        /\ Len(flushes[g].messages) >= 2
        /\ flushes[f].status = "done" /\ flushes[f].reply = "fc"
        /\ flushes[g].status = "done" /\ flushes[g].reply = "fc"

FiveValues(o) == <<o.isSpam, o.confidence, o.reason, o.matchesKnownPattern, o.shouldBan>>

\* C16: the caller of a request that was flushed alone and answered with a
\* moderate_message call is resolved with the five values of that call, unchanged.
C16_LoneRequestUnmodified ==
    \A f \in 1..Len(flushes) :
        (/\ flushes[f].status = "done"
         /\ flushes[f].reply = "fc"
         /\ Len(flushes[f].messages) = 1) =>
            \A k \in CallsOf(flushes[f].batch) :
                /\ calls[k].state = "resolved"
                /\ FiveValues(calls[k].value) = FiveValues(SpamVerdict)

\* the bot's request (chatId and messageId given) was flushed alone by its timer and
\* its caller holds isSpam, confidence 0.95, the reason, the pattern and the ban flag
C16_Witness ==
    \E f \in 1..Len(flushes) :
        /\ flushes[f].status = "done"
        /\ flushes[f].reply = "fc"
        /\ flushes[f].trigger = "timer"
        /\ flushes[f].messages = <<Request(1, 7)>>
        /\ calls[flushes[f].handler].state = "resolved"
        /\ FiveValues(calls[flushes[f].handler].value) = <<TRUE, 95, "advertising", TRUE, TRUE>>

\* C17: every outcome the gateway returns has a confidence within [0,1]
\* (0..100 in hundredths), whatever the classifier's reply says.
C17_ConfidenceInRange ==
    gwPc = "done" =>
        \A i \in 1..Len(gwOut) : gwOut[i].confidence \in 0..100

\* the item stored for call k in its batch
StoredFor(k) == batches[calls[k].batch].messages[calls[k].messageIndex + 1]

\* C18: a request without messageId is stored with its 0-based index in the batch
\* as identity, a request with a messageId keeps it, and the outcome a caller is
\* resolved with carries the identity stored for that caller's request.
C18_PositionalIdentity ==
    \A k \in 1..Len(calls) :
        /\ \E r \in Requests :
               /\ ChatKey(r) = calls[k].chatId
               /\ StoredFor(k).messageId = OrElse(r.messageId, calls[k].messageIndex)
        /\ calls[k].state = "resolved" =>
               calls[k].value.messageId = StoredFor(k).messageId

\* C19: every batch in the map holds at least one item and its timer handle is set
\* and still scheduled; every scheduled timer belongs to a batch that is in the map,
\* and every map entry is a batch of that conversation.
C19_OpenBatchInvariant ==
    /\ \A c \in ChatKeys :
           batchMap[c] # 0 =>
               /\ batchMap[c] \in DOMAIN batches
               /\ batches[batchMap[c]].chatId = c
               /\ Len(batches[batchMap[c]].messages) >= 1
               /\ batches[batchMap[c]].timer # 0
               /\ batches[batchMap[c]].timer \in DOMAIN timers
    /\ \A t \in DOMAIN timers :
           \E b \in OpenBatches :
               /\ batches[b].timer = t
               /\ Len(batches[b].messages) >= 1
               /\ FlushesOf(b) = {}

\* an open batch holds two items while its timer is partly run down, next to a
\* batch that was already flushed
C19_Witness ==
    \E b \in OpenBatches :
        /\ Len(batches[b].messages) >= 2
        /\ batches[b].timer \in DOMAIN timers
        /\ timers[batches[b].timer] < BatchTimeout
        /\ Len(flushes) >= 1

\* the number of segments the split of a reply text yields: one more than its
\* delimiters when the text is split, the whole text otherwise
SegmentCount(text) ==
    IF Has(text, {"L1", Dash})
    THEN 1 + Cardinality({p \in 1..Len(text) : IsDelimiter(text[p])})
    ELSE 1

\* C20: extractBatchResultsFromText returns one outcome per request for any reply
\* text, and a request beyond the last segment of the split gets the outcome
\* extracted from the whole text.
C20_MissingSegmentsUseWholeText ==
    (gwPc = "done" /\ gwIn.reply.kind = "text" /\ Len(gwIn.messages) >= 2) =>
        /\ Len(gwOut) = Len(gwIn.messages)
        /\ \A i \in 1..Len(gwOut) :
               i > SegmentCount(gwIn.reply.text) =>
                   FiveValues(gwOut[i]) = FiveValues(extractModerationFromText(gwIn.reply.text))

\* a reply split into two segments for three requests: the second request was read
\* from its own (empty) segment, the third from the whole text
C20_Witness ==
    /\ gwPc = "done"
    /\ gwIn.reply.kind = "text"
    /\ Len(gwIn.messages) = 3
    /\ Has(gwIn.reply.text, {Dash})
    /\ SegmentCount(gwIn.reply.text) = 2
    /\ Len(gwOut) = 3
    /\ ~gwOut[2].isSpam
    /\ gwOut[3].isSpam

\* ------------------------------------------------- extractor properties
ExText == gwIn.reply.text
ExKeywordCase == gwPc = "extracted" /\ ~JsonTrusted(ExText)

\* C21: in the keyword rules a negative assertion gives isSpam = FALSE whatever
\* else the text says; without one, a positive assertion gives TRUE; without
\* both, isSpam is TRUE exactly when a generic keyword is present.
C21_KeywordPrecedence ==
    ExKeywordCase =>
        /\ Has(ExText, {"NEG"}) => ~gwOut[1].isSpam
        /\ (~Has(ExText, {"NEG"}) /\ Has(ExText, {"POS"})) => gwOut[1].isSpam
        /\ ~Has(ExText, {"NEG", "POS"}) =>
               (gwOut[1].isSpam <=> Has(ExText, {"GEN", "NOAD"}))

\* a text with a negative assertion, a positive assertion and a generic keyword
\* was read as not spam
C21_Witness ==
    /\ ExKeywordCase
    /\ Has(ExText, {"NEG"}) /\ Has(ExText, {"POS"}) /\ Has(ExText, {"GEN"})
    /\ ~gwOut[1].isSpam

C23_SpamImpliesKnownPattern ==
    gwPc = "extracted" => (gwOut[1].isSpam => gwOut[1].matchesKnownPattern)

\* C24: extractModerationFromText returns, for any text, an outcome whose isSpam,
\* matchesKnownPattern and shouldBan are booleans, whose reason is a string and
\* whose confidence is a finite number.
C24_ExtractorTotal ==
    gwPc = "extracted" =>
        /\ Len(gwOut) = 1
        /\ gwOut[1].isSpam \in BOOLEAN
        /\ gwOut[1].matchesKnownPattern \in BOOLEAN
        /\ gwOut[1].shouldBan \in BOOLEAN
        /\ gwOut[1].reason \in {"stated reason", "spam sentence", "no reason extracted", "from JSON"}
        /\ gwOut[1].confidence # NaN

\* a structured batch reply with exactly one entry for each index 0..n-1
IsPermutationReply(in) ==
    /\ IsStructured(in)
    /\ Len(in.reply.results) = Len(in.messages)
    /\ \A i \in 0..(Len(in.messages) - 1) : Cardinality(EntriesFor(in, i)) = 1

\* C25: when the structured reply has exactly one entry per index 0..n-1, in any
\* order, moderateMessageBatch returns n outcomes and outcome i carries the five
\* values of the entry that declares messageIndex i.
C25_PermutedEntriesReordered ==
    (gwPc = "done" /\ IsPermutationReply(gwIn)) =>
        /\ Len(gwOut) = Len(gwIn.messages)
        /\ \A i \in 1..Len(gwOut) :
               \A j \in EntriesFor(gwIn, i - 1) :
                   FiveValues(gwOut[i]) = FiveValues(gwIn.reply.results[j])

\* three entries listed last index first, the spam verdict being the one for index 0
C25_Witness ==
    /\ gwPc = "done"
    /\ IsPermutationReply(gwIn)
    /\ Len(gwIn.messages) = 3
    /\ gwIn.reply.results[1].messageIndex = 2
    /\ gwIn.reply.results[3].messageIndex = 0
    /\ gwIn.reply.results[3].isSpam
    /\ ~gwIn.reply.results[1].isSpam
    /\ gwOut[1].isSpam
    /\ ~gwOut[3].isSpam

\* a function call that does not match the declared contract: another function's
\* name, or arguments without the required confidence
SchemaMismatch(in) ==
    /\ in.reply.kind = "fc"
    /\ \/ in.reply.name # DeclaredFunction(in.messages)
       \/ in.reply.name = "moderate_message" /\ in.reply.args.confidence = Undefined
       \/ /\ in.reply.name = "moderate_messages_batch"
          /\ \E j \in 1..Len(in.reply.results) : in.reply.results[j].confidence = Undefined

\* C26: a function call that does not match the declared contract (and carries no
\* text) gives the conservative default for every request, and no outcome the
\* gateway returns has an undefined field.
C26_SchemaMismatchRecovery ==
    gwPc = "done" =>
        /\ \A i \in 1..Len(gwOut) : gwOut[i].confidence # Undefined
        /\ SchemaMismatch(gwIn) =>
               /\ Len(gwOut) = Len(gwIn.messages)
               /\ \A i \in 1..Len(gwOut) : IsDefault(gwOut[i])

\* a free-text reply written like the prompt, without labels: one section per
\* request, each closed by the separator
IsSeparated(in) ==
    /\ Len(in.messages) >= 2
    /\ in.reply.kind = "text"
    /\ ~Has(in.reply.text, Labels)
    /\ Cardinality({p \in 1..Len(in.reply.text) : in.reply.text[p] = Dash}) = Len(in.messages)
    /\ in.reply.text[Len(in.reply.text)] = Dash

\* the tokens between the separator that closes section i - 1 and the one that
\* closes section i
RECURSIVE SeparatedSection(_, _)
SeparatedSection(text, i) ==
    LET d == CHOOSE q \in 1..Len(text) : text[q] = Dash /\ \A r \in 1..(q - 1) : text[r] # Dash
    IN  IF i = 1 THEN SubSeq(text, 1, d - 1)
        ELSE SeparatedSection(SubSeq(text, d + 1, Len(text)), i - 1)

\* C27: when the reply text has one section per request, marked by the labels or by
\* the separators of the prompt, the outcome of request i is the one extracted from
\* the section of item i.
C27_SectionPerRequest ==
    gwPc = "done" =>
        /\ IsLabelled(gwIn) =>
               \A i \in 1..Len(gwIn.messages) :
                   /\ i <= Len(gwOut)
                   /\ FiveValues(gwOut[i])
                          = FiveValues(extractModerationFromText(SectionOf(gwIn.reply.text, i)))
        /\ IsSeparated(gwIn) =>
               \A i \in 1..Len(gwIn.messages) :
                   /\ i <= Len(gwOut)
                   /\ FiveValues(gwOut[i])
                          = FiveValues(extractModerationFromText(SeparatedSection(gwIn.reply.text, i)))

\* C28: each caller's recorded position is the number of requests that arrived in
\* its batch before it, and a snapshot lists the items in arrival order: the item
\* at position i is the one stored by the i-th arrival (for requests without
\* messageId the stored identity is that arrival's position).
C28_ArrivalOrder ==
    /\ \A k \in 1..Len(calls) :
           calls[k].messageIndex
               = Cardinality({j \in CallsOf(calls[k].batch) : j < k})
    /\ \A f \in 1..Len(flushes) :
           \A k \in CallsOf(flushes[f].batch) :
               /\ calls[k].messageIndex < Len(flushes[f].messages)
               /\ flushes[f].messages[calls[k].messageIndex + 1].chatId = calls[k].chatId
               /\ \A r \in Requests :
                      (ChatKey(r) = calls[k].chatId /\ r.messageId = 0) =>
                          flushes[f].messages[calls[k].messageIndex + 1].messageId
                              = Cardinality({j \in CallsOf(calls[k].batch) : j < k})

\* a snapshot of three requests without messageId holds the third arrival last
C28_Witness ==
    \E f \in 1..Len(flushes) :
        /\ Len(flushes[f].messages) = 3
        /\ flushes[f].messages[3].messageId = 2

\* C29: the request carries a temperature below the normal one whenever a message
\* of the call has suspiciousProfile set, for one message and for several.
C29_LowTemperatureForSuspicious ==
    gwPc = "built" =>
        ((\E i \in 1..Len(gwIn.messages) : gwIn.messages[i].suspiciousProfile)
            => gwOut[1].temperature < NormalTemperature)

C31_BatchesBounded ==
    \A f \in 1..Len(flushes) : Len(flushes[f].messages) <= maxBatchSize

\* C32: an armed timer belongs to the batch that is in the map under its
\* conversation, so the callback that fires removes and flushes that batch only;
\* a batch flushed by a timer is the one the timer's call created, with all the
\* requests it received.
C32_TimerRemovesOwnBatch ==
    /\ \A t \in DOMAIN timers :
           /\ batchMap[calls[t].chatId] = calls[t].batch
           /\ calls[t].batch = t
    /\ \A f \in 1..Len(flushes) :
           flushes[f].trigger = "timer" =>
               /\ flushes[f].batch = flushes[f].handler
               /\ calls[flushes[f].handler].messageIndex = 0
               /\ \A b \in OpenBatches :
                      batches[b].chatId = batches[flushes[f].batch].chatId
                          => b > flushes[f].batch

\* a timer fired for the newer batch of a conversation whose earlier batch had
\* gone out by size
C32_Witness ==
    \E f, g \in 1..Len(flushes) :
        /\ flushes[f].trigger = "size"
        /\ flushes[g].trigger = "timer"
        /\ g > f
        /\ batches[flushes[g].batch].chatId = batches[flushes[f].batch].chatId
        /\ flushes[g].batch > flushes[f].batch

\* ------------------------------------------------------- bot properties
\* the handler runs that went to the classifier and have come back from it
Classified == {m \in 1..Len(inbox) : inbox[m].kind = "text" /\ inbox[m].stage = "done"
                                     /\ inbox[m].path \in {"custom", "queue"}}

\* 0.7, or 0.8 * 0.7 for a suspicious profile, in hundredths
RequiredConfidence(u) == IF u.isSuspiciousProfile THEN 56 ELSE 70

\* C33: in moderateWithGemini a message is deleted only if its outcome has
\* isSpam = true and a confidence of at least 0.7 (0.56 for a suspicious profile);
\* an outcome equal to the conservative default leads to no deletion, no ban and
\* no spam-cache insertion.
C33_DeletionNeedsConfidentSpam ==
    \A m \in Classified :
        LET u == inbox[m]
        IN  /\ u.deleted =>
                   u.outcome.isSpam /\ u.outcome.confidence >= RequiredConfidence(u)
            /\ (~u.outcome.isSpam /\ u.outcome.confidence = 0) =>
                   ~u.deleted /\ ~u.banned /\ ~u.cached

\* a message of a suspicious profile was deleted on a confidence under 0.7
C33_Witness ==
    \E m \in Classified :
        /\ inbox[m].deleted
        /\ inbox[m].isSuspiciousProfile
        /\ inbox[m].outcome.confidence < 70

\* the text messages whose handler run has returned
Handled == {m \in 1..Len(inbox) : inbox[m].kind = "text" /\ inbox[m].stage = "done"}

\* the shouldBan a handler run gave to deleteMessageAndMaybeBan
GivenShouldBan(u) ==
    \/ u.path = "knownSpammer"
    \/ u.path \in {"custom", "queue"} /\ u.outcome.shouldBan

\* C34: deleteMessageAndMaybeBan bans the author only after the message was
\* deleted and only when shouldBan is true; when the deletion fails no ban is
\* issued for that message.
C34_BanOnlyAfterDeletion ==
    \A m \in Handled :
        inbox[m].banned => inbox[m].deleted /\ GivenShouldBan(inbox[m])

\* a spam message with shouldBan whose deletion failed: its author was not banned
C34_Witness ==
    \E m \in Classified :
        /\ inbox[m].cached
        /\ inbox[m].outcome.shouldBan
        /\ ~inbox[m].deleted
        /\ ~inbox[m].banned

\* C35: a message from a whitelisted user is never submitted to the classifier and
\* never leads to a deletion or a ban, whatever the spam cache holds and whatever
\* the text is.
C35_WhitelistedNeverModerated ==
    \A m \in 1..Len(inbox) :
        LET u == inbox[m]
        IN  (u.kind = "text" /\ u.user \in whitelist) =>
                /\ u.stage = "done"
                /\ u.path = "whitelist"
                /\ u.call = 0
                /\ u.outcome = NoValue
                /\ ~u.deleted /\ ~u.banned /\ ~u.cached

\* a whitelisted user who is in the spam cache wrote a message
C35_Witness ==
    \E m \in Handled :
        /\ inbox[m].user \in whitelist
        /\ inbox[m].known # "none"
        /\ inbox[m].user \in DOMAIN spamUsers

\* C36: a new member whom checkNewMemberProfile only put under observation is not
\* banned for that alone: a ban of that user requires a classifier outcome for one
\* of their messages with isSpam = true, sufficient confidence and shouldBan = true.
C36_ObservationAloneNeverBans ==
    \A m \in 1..Len(inbox) :
        LET u == inbox[m]
        IN  (u.known = "under observation" /\ u.banned) =>
                /\ u.kind = "text"
                /\ u.path \in {"custom", "queue"}
                /\ u.outcome.isSpam
                /\ u.outcome.confidence >= RequiredConfidence(u)
                /\ u.outcome.shouldBan

\* the conversation has a custom prompt with a single-message prompt
HasSinglePrompt(c) == c \in DOMAIN customPrompts /\ customPrompts[c].singleMessagePrompt

\* C37: a message in a conversation with a custom single-message prompt is
\* classified by moderateWithCustomPrompt and never enters the open-batch map or
\* arms a flush timer; only conversations without such a prompt go through
\* queueMessageForModeration.
C37_CustomPromptBypassesBatching ==
    /\ \A m \in 1..Len(inbox) :
           LET u == inbox[m]
           IN  /\ u.path = "custom" => HasSinglePrompt(u.chatId) /\ u.call = 0
               /\ u.path = "queue" =>
                      /\ ~HasSinglePrompt(u.chatId)
                      /\ u.call \in 1..Len(calls)
                      /\ calls[u.call].chatId = u.chatId
               /\ (u.kind = "text" /\ u.outcome # NoValue /\ HasSinglePrompt(u.chatId))
                      => u.path = "custom"
    /\ \A c \in BotChats :
           HasSinglePrompt(c) =>
               /\ batchMap[c] = 0
               /\ \A k \in 1..Len(calls) : calls[k].chatId # c
               /\ \A b \in DOMAIN batches : batches[b].chatId # c
               /\ \A f \in 1..Len(flushes) : batches[flushes[f].batch].chatId # c
    /\ (\A c \in BotChats : HasSinglePrompt(c)) => timers = <<>>

\* a message was classified as spam through the custom prompt while the engine held
\* no batch, no timer and no call
C37_Witness ==
    \E m \in Classified :
        /\ inbox[m].path = "custom"
        /\ inbox[m].outcome.isSpam
        /\ inbox[m].deleted
        /\ timers = <<>>
        /\ calls = <<>>
        /\ \A c \in ChatKeys : batchMap[c] = 0

====
